---- MODULE Spec2Model ----
(***************************************************************************)
(* Lifecycle of the Netbox.Wallet GUI process (src/qt/netboxwallet.cpp):   *)
(* the interactive thread (main, BitcoinApplication and its slots) and the *)
(* worker thread (BitcoinCore: initialize / shutdown / restart).           *)
(*                                                                         *)
(* Cross-thread signals are queued connections: reqQ carries the slots     *)
(* invoked on the executor, outQ the signals it emits back.  qApp->quit()  *)
(* is a flag (quitNow) seen by the main event loop.                        *)
(***************************************************************************)
EXTENDS Integers, Sequences, FiniteSets, TLC

\* ------------------------------------------------------------------ bounds
\* direct user shutdown actions delivered to the window
MaxUserShutdown == 1
\* user restart requests emitted by the window
MaxUserRestart == 2
\* nesting depth of slots on the interactive thread
MaxDepth == 3

\* argument lists a user restart may carry (RPC console repair buttons)
UserArgs == {<<"-rescan">>}
\* command line of the running process, kept by the relaunch
BaseArgs == <<>>

VARIABLES
    \* ---- interactive thread
    mpc,              \* position of main(): "probe","gui","reqinit","exec","dtor","join","exited"
    stack,            \* slots running on the interactive thread, innermost last
    coreThread,       \* BitcoinApplication::coreThread != 0
    optionsModel,     \* "null" | "live" | "deleted"
    clientModel,
    walletModel,
    window,           \* "null" | "live" | "deleted"
    windowVisible,
    timerActive,      \* pollShutdownTimer running
    shutdownAllowed,
    returnValue,
    \* ---- process
    proc,             \* "running" | "exited"
    exitCode,
    \* ---- worker thread / executor
    wpc,              \* "nothread" | "idle" | "init" | "stopped"
    stopRequested,    \* stopThread() emitted
    execute_restart,
    reqQ,             \* queued slot invocations on the executor
    outQ,             \* queued signals from the executor to the controller
    quitNow,          \* qApp->quit() was called
    \* ---- engine
    fRequestShutdown, \* ShutdownRequested()
    fRestartRequested,\* RestartRequested()
    \* ---- history
    wlog,             \* steps performed by the executor
    clog,             \* steps performed by the controller
    relaunches,       \* argument lists given to QProcess::startDetached
    initRet,          \* how AppInit2 ended for the Initialize request
    nUserShutdown,
    nUserRestart

vars == <<mpc, stack, coreThread, optionsModel, clientModel, walletModel, window,
          windowVisible, timerActive, shutdownAllowed, returnValue, proc, exitCode,
          wpc, stopRequested, execute_restart, reqQ, outQ, quitNow,
          fRequestShutdown, fRestartRequested, wlog, clog, relaunches, initRet,
          nUserShutdown, nUserRestart>>

ctlVars == <<coreThread, optionsModel, clientModel, walletModel, window,
             windowVisible, timerActive, shutdownAllowed, returnValue>>
wrkVars == <<wpc, stopRequested, execute_restart, reqQ, outQ, quitNow>>
engVars == <<fRequestShutdown, fRestartRequested>>
histVars == <<wlog, clog, relaunches, initRet, nUserShutdown, nUserRestart>>

\* ------------------------------------------------------------------ helpers
Req(op, args) == [op |-> op, args |-> args]
InitializeResultMsg(rv) == [kind |-> "initializeResult", rv |-> rv]
RunawayMsg == [kind |-> "runawayException", rv |-> FALSE]
Frame(fn, pc, rv) == [fn |-> fn, pc |-> pc, rv |-> rv]

Top == stack[Len(stack)]
Pop == SubSeq(stack, 1, Len(stack) - 1)
SetTopPc(pc) == [stack EXCEPT ![Len(stack)].pc = pc]

Count(log, e) == Cardinality({i \in 1..Len(log) : log[i] = e})
Has(log, e) == \E i \in 1..Len(log) : log[i] = e
\* every occurrence of a lies before every occurrence of b
Before(log, a, b) ==
    \A j \in 1..Len(log) :
        log[j] = b => \A i \in j..Len(log) : log[i] # a

Init ==
    /\ mpc = "probe"
    /\ stack = <<>>
    /\ coreThread = FALSE
    /\ optionsModel = "null"
    /\ clientModel = "null"
    /\ walletModel = "null"
    /\ window = "null"
    /\ windowVisible = FALSE
    /\ timerActive = FALSE
    /\ shutdownAllowed = TRUE
    /\ returnValue = 0
    /\ proc = "running"
    /\ exitCode = -1
    /\ wpc = "nothread"
    /\ stopRequested = FALSE
    /\ execute_restart \in BOOLEAN     \* not initialised by BitcoinCore::BitcoinCore
    /\ reqQ = <<>>
    /\ outQ = <<>>
    /\ quitNow = FALSE
    /\ fRequestShutdown = FALSE
    /\ fRestartRequested = FALSE
    /\ wlog = <<>>
    /\ clog = <<>>
    /\ relaunches = <<>>
    /\ initRet = [st |-> "pending", rv |-> FALSE, resync |-> FALSE, sd |-> FALSE]
    /\ nUserShutdown = 0
    /\ nUserRestart = 0

\* restart that stops the event loop before the engine teardown
RestartStepsQuitEarly == <<"Interrupt", "quit", "PrepareShutdown", "callCleanup", "startDetached">>

\* ------------------------------------------------------------------ engine
\* Steps of the try blocks of restart() and shutdown(), in program order.
RestartSteps == <<"Interrupt", "PrepareShutdown", "callCleanup", "startDetached", "quit">>
ShutdownSteps == <<"Interrupt", "Shutdown", "quit">>
\* calls of each try block that can raise
RestartFaults == {"none", "Interrupt", "PrepareShutdown", "callCleanup"}
ShutdownFaults == {"none", "Interrupt", "Shutdown"}

\* the steps completed when step f raises (all of them when f = "none")
Done(steps, f) ==
    IF f = "none" THEN steps
    ELSE SubSeq(steps, 1, (CHOOSE i \in 1..Len(steps) : steps[i] = f) - 1)

Tagged(op, steps) == [i \in 1..Len(steps) |-> <<op, steps[i]>>]

\* The engine reports RestartRequested() once the teardown procedure called
\* by restart has run.
EngineRestartRequested(done) == Has(done, "PrepareShutdown")

\* RPCConsole::buildParameterlist: the process's arguments with arg appended.
buildParameterlist(arg) == Append(BaseArgs, arg)

\* a catch block that swallows the fault without reporting it
RunawayOutNone(f) == outQ

\* BitcoinCore::handleRunawayException, as the suffix of an operation's log
RunawayLog(op, f) == IF f = "none" THEN <<>> ELSE << <<op, "runawayException">> >>
RunawayOut(f) == IF f = "none" THEN outQ ELSE Append(outQ, RunawayMsg)

\* ------------------------------------------------------------------ executor
OutcomeName(rv) == IF rv THEN "InitSucceeded" ELSE "InitFailed"

\* restart() with the latch never consumed
restartNoLatch(args, f) ==
    LET done == Done(RestartSteps, f) IN
    /\ execute_restart' = execute_restart
    /\ wlog' = wlog \o << <<"restart", "enter">> >> \o Tagged("restart", done)
                    \o RunawayLog("restart", f)
    /\ relaunches' = IF Has(done, "startDetached")
                     THEN Append(relaunches, args) ELSE relaunches
    /\ fRestartRequested' = (fRestartRequested \/ EngineRestartRequested(done))
    /\ quitNow' = (quitNow \/ Has(done, "quit"))
    /\ outQ' = RunawayOut(f)

\* restart() with the latch consumed only by a restart that reached the launch
restartRelatch(args, f) ==
    IF execute_restart
    THEN LET done == Done(RestartSteps, f) IN
         /\ execute_restart' = ~Has(done, "startDetached")
         /\ wlog' = wlog \o << <<"restart", "enter">> >> \o Tagged("restart", done)
                         \o RunawayLog("restart", f)
         /\ relaunches' = IF Has(done, "startDetached")
                          THEN Append(relaunches, args) ELSE relaunches
         /\ fRestartRequested' = (fRestartRequested \/ EngineRestartRequested(done))
         /\ quitNow' = (quitNow \/ Has(done, "quit"))
         /\ outQ' = RunawayOut(f)
    ELSE /\ f = "none"
         /\ wlog' = Append(wlog, <<"restart", "skip">>)
         /\ UNCHANGED <<execute_restart, relaunches, fRestartRequested, quitNow, outQ>>

\* BitcoinCore::restart(args); f is the call that raises, if any.
restart(args, f) ==
    IF execute_restart
    THEN LET done == Done(RestartSteps, f) IN
         /\ execute_restart' = FALSE
         /\ wlog' = wlog \o << <<"restart", "enter">> >> \o Tagged("restart", done)
                         \o RunawayLog("restart", f)
         /\ relaunches' = IF Has(done, "startDetached")
                          THEN Append(relaunches, args) ELSE relaunches
         /\ fRestartRequested' = (fRestartRequested \/ EngineRestartRequested(done))
         /\ quitNow' = (quitNow \/ Has(done, "quit"))
         /\ outQ' = RunawayOut(f)
    ELSE /\ f = "none"
         /\ wlog' = Append(wlog, <<"restart", "skip">>)
         /\ UNCHANGED <<execute_restart, relaunches, fRestartRequested, quitNow, outQ>>

\* shutdown() without the RestartRequested() test
shutdownNoGuard(f) ==
    LET done == Done(ShutdownSteps, f) IN
    /\ wlog' = wlog \o << <<"shutdown", "enter">> >> \o Tagged("shutdown", done)
                    \o RunawayLog("shutdown", f)
    /\ quitNow' = (quitNow \/ Has(done, "quit"))
    /\ outQ' = RunawayOut(f)

\* BitcoinCore::shutdown(); f is the call that raises, if any.
shutdown(f) ==
    IF fRestartRequested
    THEN /\ f = "none"
         /\ wlog' = Append(wlog, <<"shutdown", "skip">>)
         /\ UNCHANGED <<quitNow, outQ>>
    ELSE LET done == Done(ShutdownSteps, f) IN
         /\ wlog' = wlog \o << <<"shutdown", "enter">> >> \o Tagged("shutdown", done)
                         \o RunawayLog("shutdown", f)
         /\ quitNow' = (quitNow \/ Has(done, "quit"))
         /\ outQ' = RunawayOut(f)

\* initialize() reporting the result whatever ResyncNeeded() says
initializeTailNoResync(rv, resync, f) ==
    /\ f = "none"
    /\ outQ' = Append(outQ, InitializeResultMsg(rv))
    /\ wlog' = Append(wlog, <<"initialize", OutcomeName(rv)>>)
    /\ UNCHANGED <<execute_restart, relaunches, fRestartRequested, quitNow>>

\* initialize() reporting the negated return code
initializeTailFlipped(rv, resync, f) ==
    IF resync
    THEN IF ~fRequestShutdown
         THEN restart(buildParameterlist("-resync"), f)
         ELSE /\ f = "none"
              /\ UNCHANGED <<execute_restart, wlog, relaunches, fRestartRequested,
                             quitNow, outQ>>
    ELSE /\ f = "none"
         /\ outQ' = Append(outQ, InitializeResultMsg(~rv))
         /\ wlog' = Append(wlog, <<"initialize", OutcomeName(~rv)>>)
         /\ UNCHANGED <<execute_restart, relaunches, fRestartRequested, quitNow>>

\* BitcoinCore::initialize() after AppInit2 has returned rv.
initializeTail(rv, resync, f) ==
    IF resync
    THEN IF ~fRequestShutdown
         THEN restart(buildParameterlist("-resync"), f)
         ELSE /\ f = "none"
              /\ UNCHANGED <<execute_restart, wlog, relaunches, fRestartRequested,
                             quitNow, outQ>>
    ELSE /\ f = "none"
         /\ outQ' = Append(outQ, InitializeResultMsg(rv))
         /\ wlog' = Append(wlog, <<"initialize", OutcomeName(rv)>>)
         /\ UNCHANGED <<execute_restart, relaunches, fRestartRequested, quitNow>>

\* executor log: initializeResult signals emitted so far
EmitCount == Count(wlog, <<"initialize", "InitSucceeded">>)
             + Count(wlog, <<"initialize", "InitFailed">>)

InitRet(st, rv, resync, sd) == [st |-> st, rv |-> rv, resync |-> resync, sd |-> sd]

\* The worker dequeues Initialize: execute_restart = true, AppInit2 starts.
W_InitBegin ==
    /\ proc = "running" /\ wpc = "idle"
    /\ reqQ # <<>> /\ Head(reqQ).op = "Initialize"
    /\ reqQ' = Tail(reqQ)
    /\ execute_restart' = TRUE
    /\ wpc' = "init"
    /\ UNCHANGED <<mpc, stack, ctlVars, proc, exitCode, stopRequested, outQ, quitNow,
                   engVars, histVars>>

\* AppInit2 raises.
W_InitFault ==
    /\ proc = "running" /\ wpc = "init"
    /\ wpc' = "idle"
    /\ initRet' = InitRet("faulted", FALSE, FALSE, fRequestShutdown)
    /\ outQ' = Append(outQ, RunawayMsg)
    /\ wlog' = Append(wlog, <<"initialize", "runawayException">>)
    /\ UNCHANGED <<mpc, stack, ctlVars, proc, exitCode, stopRequested, execute_restart,
                   reqQ, quitNow, engVars, clog, relaunches, nUserShutdown, nUserRestart>>

\* AppInit2 returns rv; resync is what ResyncNeeded() then answers.
W_InitEnd ==
    /\ proc = "running" /\ wpc = "init"
    /\ wpc' = "idle"
    /\ \E rv \in BOOLEAN, resync \in BOOLEAN, f \in RestartFaults :
          /\ initRet' = InitRet("returned", rv, resync, fRequestShutdown)
          /\ initializeTail(rv, resync, f)
    /\ UNCHANGED <<mpc, stack, ctlVars, proc, exitCode, stopRequested, reqQ,
                   fRequestShutdown, clog, nUserShutdown, nUserRestart>>

\* The worker dequeues a Restart request.
W_Restart ==
    /\ proc = "running" /\ wpc = "idle"
    /\ reqQ # <<>> /\ Head(reqQ).op = "Restart"
    /\ reqQ' = Tail(reqQ)
    /\ \E f \in RestartFaults : restart(Head(reqQ).args, f)
    /\ UNCHANGED <<mpc, stack, ctlVars, proc, exitCode, wpc, stopRequested,
                   fRequestShutdown, clog, initRet, nUserShutdown, nUserRestart>>

\* The worker dequeues a Shutdown request.
W_Shutdown ==
    /\ proc = "running" /\ wpc = "idle"
    /\ reqQ # <<>> /\ Head(reqQ).op = "Shutdown"
    /\ reqQ' = Tail(reqQ)
    /\ \E f \in ShutdownFaults : shutdown(f)
    /\ UNCHANGED <<mpc, stack, ctlVars, proc, exitCode, wpc, stopRequested,
                   execute_restart, engVars, clog, relaunches, initRet,
                   nUserShutdown, nUserRestart>>

\* QThread::quit() takes effect: the worker's event loop ends.
W_Stop ==
    /\ proc = "running" /\ wpc = "idle" /\ stopRequested
    /\ wpc' = "stopped"
    /\ UNCHANGED <<mpc, stack, ctlVars, proc, exitCode, stopRequested, execute_restart,
                   reqQ, outQ, quitNow, engVars, histVars>>

\* StartShutdown() called from outside the controller (RPC stop, signal).
EnvStartShutdown ==
    /\ proc = "running" /\ ~fRequestShutdown
    /\ wpc = "init" \/ (wpc = "idle" /\ initRet.st # "pending")
    /\ fRequestShutdown' = TRUE
    /\ UNCHANGED <<mpc, stack, ctlVars, proc, exitCode, wrkVars, fRestartRequested,
                   histVars>>

\* startThread without the "if (coreThread) return" guard
StartThreadLogNoGuard == <<"startThread">>

\* ------------------------------------------------------------------ main()
\* BitcoinApplication::startThread: the effect on the thread, and its log.
startThread ==
    /\ coreThread' = TRUE
    /\ wpc' = IF coreThread THEN wpc ELSE "idle"
StartThreadLog == IF coreThread THEN <<>> ELSE <<"startThread">>

\* main() that goes on to build the GUI although a running instance answered
MainProbeNoExit ==
    /\ proc = "running" /\ mpc = "probe"
    /\ \E sentCommandLine \in BOOLEAN, sentShow \in BOOLEAN :
          IF sentCommandLine \/ sentShow
          THEN /\ mpc' = "gui" /\ clog' = Append(clog, "probeFound")
               /\ UNCHANGED <<proc, exitCode>>
          ELSE /\ mpc' = "gui" /\ UNCHANGED <<proc, exitCode, clog>>
    /\ UNCHANGED <<stack, ctlVars, wrkVars, engVars, wlog, relaunches, initRet,
                   nUserShutdown, nUserRestart>>

\* Step 8 of main: ipcSendCommandLine, then ipcSendCommand("nbx:show");
\* either one answered by a running instance ends the process with exit(0).
MainProbe ==
    /\ proc = "running" /\ mpc = "probe"
    /\ \E sentCommandLine \in BOOLEAN, sentShow \in BOOLEAN :
          IF sentCommandLine \/ sentShow
          THEN /\ proc' = "exited" /\ exitCode' = 0 /\ mpc' = "exited"
               /\ clog' = Append(clog, "probeFound")
          ELSE /\ mpc' = "gui" /\ UNCHANGED <<proc, exitCode, clog>>
    /\ UNCHANGED <<stack, ctlVars, wrkVars, engVars, wlog, relaunches, initRet,
                   nUserShutdown, nUserRestart>>

\* createOptionsModel and createWindow (which starts the poll timer).
MainCreateGui ==
    /\ proc = "running" /\ mpc = "gui"
    /\ optionsModel' = "live"
    /\ window' = "live"
    /\ timerActive' = TRUE
    /\ clog' = clog \o <<"createOptionsModel", "createWindow", "timerStart">>
    /\ mpc' = "reqinit"
    /\ UNCHANGED <<stack, coreThread, clientModel, walletModel, windowVisible,
                   shutdownAllowed, returnValue, proc, exitCode, wrkVars, engVars,
                   wlog, relaunches, initRet, nUserShutdown, nUserRestart>>

\* BitcoinApplication::requestInitialize, then app.exec() is entered.
requestInitialize ==
    /\ startThread
    /\ reqQ' = Append(reqQ, Req("Initialize", <<>>))
    /\ clog' = clog \o StartThreadLog \o <<"postInitialize">>

MainRequestInitialize ==
    /\ proc = "running" /\ mpc = "reqinit"
    /\ requestInitialize
    /\ mpc' = "exec"
    /\ UNCHANGED <<stack, optionsModel, clientModel, walletModel, window, windowVisible,
                   timerActive, shutdownAllowed, returnValue, proc, exitCode,
                   stopRequested, execute_restart, outQ, quitNow, engVars,
                   wlog, relaunches, initRet, nUserShutdown, nUserRestart>>

\* app.exec() returns once quit() was called; signals queued before it have
\* been delivered.  main() then evaluates app.getReturnValue().
ExecReturn ==
    /\ proc = "running" /\ mpc = "exec" /\ stack = <<>>
    /\ quitNow /\ outQ = <<>>
    /\ mpc' = "dtor"
    /\ exitCode' = returnValue
    /\ clog' = Append(clog, "execReturn")
    /\ UNCHANGED <<stack, ctlVars, proc, wrkVars, engVars, wlog, relaunches, initRet,
                   nUserShutdown, nUserRestart>>

\* ~BitcoinApplication: emit stopThread(), then coreThread->wait().
DtorStopThread ==
    /\ proc = "running" /\ mpc = "dtor"
    /\ stopRequested' = coreThread
    /\ mpc' = "join"
    /\ clog' = clog \o (IF coreThread THEN <<"stopThread">> ELSE <<>>)
    /\ UNCHANGED <<stack, ctlVars, proc, exitCode, wpc, execute_restart, reqQ, outQ,
                   quitNow, engVars, wlog, relaunches, initRet, nUserShutdown,
                   nUserRestart>>

\* a destructor that releases its objects without coreThread->wait()
DtorFinishNoWait ==
    /\ proc = "running" /\ mpc = "join"
    /\ window' = "deleted"
    /\ windowVisible' = FALSE
    /\ timerActive' = FALSE
    /\ optionsModel' = "deleted"
    /\ clog' = clog \o <<"threadJoined", "delWindow", "delPaymentServer", "delOptionsModel">>
    /\ mpc' = "exited"
    /\ proc' = "exited"
    /\ UNCHANGED <<stack, coreThread, clientModel, walletModel, shutdownAllowed,
                   returnValue, exitCode, wrkVars, engVars, wlog, relaunches, initRet,
                   nUserShutdown, nUserRestart>>

\* ~BitcoinApplication after the wait: window, payment server, options model.
DtorFinish ==
    /\ proc = "running" /\ mpc = "join"
    /\ coreThread => wpc = "stopped"
    /\ window' = "deleted"
    /\ windowVisible' = FALSE
    /\ timerActive' = FALSE
    /\ optionsModel' = "deleted"
    /\ clog' = clog \o <<"threadJoined", "delWindow", "delPaymentServer", "delOptionsModel">>
    /\ mpc' = "exited"
    /\ proc' = "exited"
    /\ UNCHANGED <<stack, coreThread, clientModel, walletModel, shutdownAllowed,
                   returnValue, exitCode, wrkVars, engVars, wlog, relaunches, initRet,
                   nUserShutdown, nUserRestart>>

\* ------------------------------------------------------------------ event loop
\* Presentation-layer calls made by initializeResult between these positions
\* may run the event loop (the window the ShutdownGate exists for).
IRYieldPcs == {"wallet", "finish"}

\* The interactive thread is processing events: in app.exec(), in the
\* processEvents() of requestShutdown's gate wait, or inside a yielding call
\* of initializeResult.
AtDispatch ==
    /\ proc = "running"
    /\ \/ mpc = "exec" /\ stack = <<>>
       \/ /\ stack # <<>>
          /\ \/ Top.fn = "requestShutdown" /\ ~shutdownAllowed
             \/ Top.fn = "initializeResult" /\ Top.pc \in IRYieldPcs

\* The queued initializeResult(int) signal reaches its slot.
DeliverInitializeResult ==
    /\ AtDispatch
    /\ outQ # <<>> /\ Head(outQ).kind = "initializeResult"
    /\ outQ' = Tail(outQ)
    /\ stack' = Append(stack, Frame("initializeResult", "begin", Head(outQ).rv))
    /\ clog' = Append(clog, IF Head(outQ).rv THEN "recvInitSucceeded" ELSE "recvInitFailed")
    /\ UNCHANGED <<mpc, ctlVars, proc, exitCode, wpc, stopRequested, execute_restart,
                   reqQ, quitNow, engVars, wlog, relaunches, initRet, nUserShutdown,
                   nUserRestart>>

\* handleRunawayException showing the dialog without leaving the process
handleRunawayExceptionNoExit ==
    /\ clog' = clog \o <<"recvFaultRaised", "errorDialog">>
    /\ UNCHANGED <<proc, exitCode>>

\* BitcoinApplication::handleRunawayException: showErrorMessage, exit(EXIT_FAILURE).
handleRunawayException ==
    /\ clog' = clog \o <<"recvFaultRaised", "errorDialog", "exitFailure">>
    /\ proc' = "exited"
    /\ exitCode' = 1

DeliverRunaway ==
    /\ AtDispatch
    /\ outQ # <<>> /\ Head(outQ).kind = "runawayException"
    /\ outQ' = Tail(outQ)
    /\ handleRunawayException
    /\ UNCHANGED <<mpc, stack, ctlVars, wpc, stopRequested, execute_restart, reqQ,
                   quitNow, engVars, wlog, relaunches, initRet, nUserShutdown,
                   nUserRestart>>

\* The window's requestedShutdown() signal invokes requestShutdown() directly.
EnterRequestShutdown(src) ==
    /\ Len(stack) < MaxDepth
    /\ stack' = Append(stack, Frame("requestShutdown", "wait", FALSE))
    /\ clog' = Append(clog, src)

\* BitcoinGUI::detectShutdown: the poll asks whether a shutdown was requested.
detectShutdown == fRequestShutdown

\* pollShutdownTimer fires; on detection the window emits requestedShutdown().
TimerTick ==
    /\ AtDispatch
    /\ window = "live" /\ timerActive
    /\ detectShutdown
    /\ EnterRequestShutdown("pollShutdown")
    /\ UNCHANGED <<mpc, ctlVars, proc, exitCode, wrkVars, engVars, wlog, relaunches,
                   initRet, nUserShutdown, nUserRestart>>

\* A direct user action (quit, session end) makes the window request shutdown.
UserShutdown ==
    /\ AtDispatch
    /\ window = "live"
    /\ nUserShutdown < MaxUserShutdown
    /\ nUserShutdown' = nUserShutdown + 1
    /\ EnterRequestShutdown("userShutdown")
    /\ UNCHANGED <<mpc, ctlVars, proc, exitCode, wrkVars, engVars, wlog, relaunches,
                   initRet, nUserRestart>>

\* The window emits requestedRestart(args): queued to the executor's restart.
UserRestart ==
    /\ AtDispatch
    /\ window = "live" /\ coreThread
    /\ nUserRestart < MaxUserRestart
    /\ nUserRestart' = nUserRestart + 1
    /\ \E a \in UserArgs : reqQ' = Append(reqQ, Req("Restart", a))
    /\ UNCHANGED <<mpc, stack, ctlVars, proc, exitCode, wpc, stopRequested,
                   execute_restart, outQ, quitNow, engVars, wlog, clog, relaunches,
                   initRet, nUserShutdown>>

\* ------------------------------------------------------------------ requestShutdown
\* requestShutdown without its wait loop
GateOpenAlways == TRUE

\* the condition that ends the wait loop of requestShutdown
GateOpen == shutdownAllowed

Destroy(m) == IF m = "live" THEN "deleted" ELSE m
DestroyLog(m, e) == IF m = "live" THEN <<e>> ELSE <<>>

\* requestShutdown deleting the client model before the wallet model
requestShutdownSwapped ==
    /\ startThread
    /\ windowVisible' = FALSE
    /\ timerActive' = FALSE
    /\ walletModel' = Destroy(walletModel)
    /\ clientModel' = Destroy(clientModel)
    /\ reqQ' = Append(reqQ, Req("Shutdown", <<>>))
    /\ clog' = clog \o StartThreadLog \o <<"hide", "detachClientModel", "timerStop">>
                    \o DestroyLog(clientModel, "delClientModel")
                    \o DestroyLog(walletModel, "delWalletModel")
                    \o <<"showShutdownWindow", "postShutdown">>

\* requestShutdown that forwards Shutdown without deleting the client model
requestShutdownKeepClient ==
    /\ startThread
    /\ windowVisible' = FALSE
    /\ timerActive' = FALSE
    /\ walletModel' = Destroy(walletModel)
    /\ clientModel' = clientModel
    /\ reqQ' = Append(reqQ, Req("Shutdown", <<>>))
    /\ clog' = clog \o StartThreadLog \o <<"hide", "detachClientModel", "timerStop">>
                    \o DestroyLog(walletModel, "delWalletModel")
                    \o <<"showShutdownWindow", "postShutdown">>

\* BitcoinApplication::requestShutdown once the wait loop has ended.
requestShutdown ==
    /\ startThread
    /\ windowVisible' = FALSE
    /\ timerActive' = FALSE
    /\ walletModel' = Destroy(walletModel)
    /\ clientModel' = Destroy(clientModel)
    /\ reqQ' = Append(reqQ, Req("Shutdown", <<>>))
    /\ clog' = clog \o StartThreadLog \o <<"hide", "detachClientModel", "timerStop">>
                    \o DestroyLog(walletModel, "delWalletModel")
                    \o DestroyLog(clientModel, "delClientModel")
                    \o <<"showShutdownWindow", "postShutdown">>

RS_Run ==
    /\ proc = "running" /\ stack # <<>>
    /\ Top.fn = "requestShutdown"
    /\ GateOpen
    /\ requestShutdown
    /\ stack' = Pop
    /\ UNCHANGED <<mpc, optionsModel, window, shutdownAllowed, returnValue, proc,
                   exitCode, stopRequested, execute_restart, outQ, quitNow, engVars,
                   wlog, relaunches, initRet, nUserShutdown, nUserRestart>>

\* ------------------------------------------------------------------ initializeResult
\* how the window is brought up: -min, -hide or neither
ShowOptions == {"normal", "min", "hide"}

\* initializeResult taking every outcome for a success
initializeResultBeginNoRetval(retval) ==
    IF fRequestShutdown
    THEN /\ shutdownAllowed' = TRUE
         /\ clog' = clog \o <<"closeGate", "openGate">>
         /\ stack' = Pop
         /\ UNCHANGED <<returnValue, clientModel, fRequestShutdown>>
    ELSE /\ returnValue' = IF retval THEN 0 ELSE 1
         /\ shutdownAllowed' = FALSE
         /\ clientModel' = "live"
         /\ clog' = clog \o <<"closeGate", "newClientModel", "attachClientModel">>
         /\ stack' = SetTopPc("wallet")
         /\ UNCHANGED fRequestShutdown

\* initializeResult whose early return leaves the gate closed
initializeResultBeginNoReopen(retval) ==
    IF fRequestShutdown
    THEN /\ shutdownAllowed' = FALSE
         /\ clog' = clog \o <<"closeGate">>
         /\ stack' = Pop
         /\ UNCHANGED <<returnValue, clientModel, fRequestShutdown>>
    ELSE /\ returnValue' = IF retval THEN 0 ELSE 1
         /\ IF retval
            THEN /\ shutdownAllowed' = FALSE
                 /\ clientModel' = "live"
                 /\ clog' = clog \o <<"closeGate", "newClientModel", "attachClientModel">>
                 /\ stack' = SetTopPc("wallet")
                 /\ UNCHANGED fRequestShutdown
            ELSE /\ fRequestShutdown' = TRUE
                 /\ shutdownAllowed' = TRUE
                 /\ clog' = clog \o <<"closeGate", "StartShutdown", "openGate">>
                 /\ stack' = Pop
                 /\ UNCHANGED clientModel

\* initializeResult with the two return codes exchanged
initializeResultBeginFlipped(retval) ==
    IF fRequestShutdown
    THEN /\ shutdownAllowed' = TRUE
         /\ clog' = clog \o <<"closeGate", "openGate">>
         /\ stack' = Pop
         /\ UNCHANGED <<returnValue, clientModel, fRequestShutdown>>
    ELSE /\ returnValue' = IF retval THEN 1 ELSE 0
         /\ IF retval
            THEN /\ shutdownAllowed' = FALSE
                 /\ clientModel' = "live"
                 /\ clog' = clog \o <<"closeGate", "newClientModel", "attachClientModel">>
                 /\ stack' = SetTopPc("wallet")
                 /\ UNCHANGED fRequestShutdown
            ELSE /\ fRequestShutdown' = TRUE
                 /\ shutdownAllowed' = TRUE
                 /\ clog' = clog \o <<"closeGate", "StartShutdown", "openGate">>
                 /\ stack' = Pop
                 /\ UNCHANGED clientModel

\* BitcoinApplication::initializeResult(retval) up to the client model:
\* close the gate, return if ShutdownRequested(), set returnValue, then
\* either build and attach the client model or StartShutdown().
initializeResultBegin(retval) ==
    IF fRequestShutdown
    THEN /\ shutdownAllowed' = TRUE
         /\ clog' = clog \o <<"closeGate", "openGate">>
         /\ stack' = Pop
         /\ UNCHANGED <<returnValue, clientModel, fRequestShutdown>>
    ELSE /\ returnValue' = IF retval THEN 0 ELSE 1
         /\ IF retval
            THEN /\ shutdownAllowed' = FALSE
                 /\ clientModel' = "live"
                 /\ clog' = clog \o <<"closeGate", "newClientModel", "attachClientModel">>
                 /\ stack' = SetTopPc("wallet")
                 /\ UNCHANGED fRequestShutdown
            ELSE /\ fRequestShutdown' = TRUE
                 /\ shutdownAllowed' = TRUE
                 /\ clog' = clog \o <<"closeGate", "StartShutdown", "openGate">>
                 /\ stack' = Pop
                 /\ UNCHANGED clientModel

IR_Begin ==
    /\ proc = "running" /\ stack # <<>>
    /\ Top.fn = "initializeResult" /\ Top.pc = "begin"
    /\ initializeResultBegin(Top.rv)
    /\ UNCHANGED <<mpc, coreThread, optionsModel, walletModel, window, windowVisible,
                   timerActive, proc, exitCode, wrkVars, fRestartRequested, wlog,
                   relaunches, initRet, nUserShutdown, nUserRestart>>

\* if (pwalletMain): build the wallet model and add it to the window.
IR_Wallet ==
    /\ proc = "running" /\ stack # <<>>
    /\ Top.fn = "initializeResult" /\ Top.pc = "wallet"
    /\ \E pwalletMain \in BOOLEAN :
          IF pwalletMain
          THEN /\ walletModel' = "live"
               /\ clog' = clog \o <<"newWalletModel", "addWallet">>
          ELSE UNCHANGED <<walletModel, clog>>
    /\ stack' = SetTopPc("finish")
    /\ UNCHANGED <<mpc, coreThread, optionsModel, clientModel, window, windowVisible,
                   timerActive, shutdownAllowed, returnValue, proc, exitCode, wrkVars,
                   engVars, wlog, relaunches, initRet, nUserShutdown, nUserRestart>>

\* initializeResult's tail reopening the gate first and signalling last
initializeResultFinishGateFirst(opt) ==
    /\ windowVisible' = (opt # "hide")
    /\ shutdownAllowed' = TRUE
    /\ clog' = clog \o <<"openGate">>
                    \o (CASE opt = "normal" -> <<"show">>
                          [] opt = "min" -> <<"showMinimized">>
                          [] OTHER -> <<"startHidden">>)
                    \o <<"applicationInitialized", "splashFinished">>

\* initializeResult's tail without the window->show() branch
initializeResultFinishNoShow(opt) ==
    /\ windowVisible' = (opt = "min")
    /\ shutdownAllowed' = TRUE
    /\ clog' = clog \o <<"applicationInitialized">>
                    \o (CASE opt = "min" -> <<"showMinimized">>
                          [] opt = "hide" -> <<"startHidden">>
                          [] OTHER -> <<>>)
                    \o <<"splashFinished", "openGate">>

\* emit applicationInitialized(), show the window as the options say,
\* emit splashFinished, and reopen the gate ("startHidden" records that
\* -hide was given and nothing is shown).
initializeResultFinish(opt) ==
    /\ windowVisible' = (opt # "hide")
    /\ shutdownAllowed' = TRUE
    /\ clog' = clog \o <<"applicationInitialized">>
                    \o (CASE opt = "normal" -> <<"show">>
                          [] opt = "min" -> <<"showMinimized">>
                          [] OTHER -> <<"startHidden">>)
                    \o <<"splashFinished", "openGate">>

IR_Finish ==
    /\ proc = "running" /\ stack # <<>>
    /\ Top.fn = "initializeResult" /\ Top.pc = "finish"
    /\ \E opt \in ShowOptions : initializeResultFinish(opt)
    /\ stack' = Pop
    /\ UNCHANGED <<mpc, coreThread, optionsModel, clientModel, walletModel, window,
                   timerActive, returnValue, proc, exitCode, wrkVars, engVars, wlog,
                   relaunches, initRet, nUserShutdown, nUserRestart>>

\* ------------------------------------------------------------------ specification
Next ==
    \/ MainProbe
    \/ MainCreateGui
    \/ MainRequestInitialize
    \/ ExecReturn
    \/ DtorStopThread
    \/ DtorFinish
    \/ DeliverInitializeResult
    \/ DeliverRunaway
    \/ TimerTick
    \/ UserShutdown
    \/ UserRestart
    \/ RS_Run
    \/ IR_Begin
    \/ IR_Wallet
    \/ IR_Finish
    \/ W_InitBegin
    \/ W_InitFault
    \/ W_InitEnd
    \/ W_Restart
    \/ W_Shutdown
    \/ W_Stop
    \/ EnvStartShutdown

Spec == Init /\ [][Next]_vars

\* ------------------------------------------------------------------ properties
RestartEntered == Count(wlog, <<"restart", "enter">>)
RestartSkipped == Count(wlog, <<"restart", "skip">>)
RestartRaised == Has(wlog, <<"restart", "runawayException">>)
ShutdownPosted == Count(clog, "postShutdown")
ShutdownCalls == Count(clog, "pollShutdown") + Count(clog, "userShutdown")
InRequestShutdown == \E i \in 1..Len(stack) : stack[i].fn = "requestShutdown"
ModelSteps == {"newClientModel", "attachClientModel", "newWalletModel", "addWallet"}
ShowSteps == {"show", "showMinimized"}
WindowShown == \E i \in 1..Len(clog) : clog[i] \in ShowSteps
ModelsBuilt == \E i \in 1..Len(clog) : clog[i] \in ModelSteps

\* C1: in every reachable state the relaunch (QProcess::startDetached in
\* restart) has run at most once, however many Restart requests arrived.
C1_RelaunchAtMostOnce == Len(relaunches) <= 1

\* C1 witness: one relaunch happened and a further Restart request was ignored.
C1_Witness == Len(relaunches) = 1 /\ RestartSkipped >= 1

\* C2 as stated: once the executor has processed a Restart request, the
\* relaunch has run exactly once.
C2_RelaunchExactlyOnce ==
    (RestartEntered + RestartSkipped >= 1) => Len(relaunches) = 1

\* C2 amended: once the executor has processed Restart requests, exactly the
\* first one entered the restart body; the relaunch has run once if that
\* restart raised no fault, and not at all if it did.
C2_RelaunchOnceUnlessFault ==
    (RestartEntered + RestartSkipped >= 1) =>
        /\ RestartEntered = 1
        /\ Len(relaunches) = IF RestartRaised THEN 0 ELSE 1

\* C2 witness: the first restart raised before the launch and a later Restart
\* request was ignored.
C2_Witness == RestartRaised /\ RestartSkipped >= 1 /\ Len(relaunches) = 0

\* C3 as stated: once a poll-triggered and a user-triggered requestShutdown
\* have both run, exactly one Shutdown request was posted to the executor.
C3_OneShutdownPosted ==
    (Has(clog, "pollShutdown") /\ Has(clog, "userShutdown") /\ ~InRequestShutdown)
        => ShutdownPosted = 1

C5_NoModelAfterForward ==
    \A i, j \in 1..Len(clog) :
        (i < j /\ clog[i] = "postShutdown") => clog[j] \notin ModelSteps

\* C6: once initializeResult(false) was received, the window has never been
\* shown and no client or wallet model has ever been built.
C6_InitFailedNoWindowNoModels ==
    Has(clog, "recvInitFailed") =>
        /\ ~WindowShown /\ ~windowVisible
        /\ ~ModelsBuilt /\ clientModel = "null" /\ walletModel = "null"

\* C6 witness: InitFailed was received and handled (StartShutdown called).
C6_Witness == Has(clog, "recvInitFailed") /\ Has(clog, "StartShutdown")

ResyncCase == initRet.st = "returned" /\ initRet.resync /\ ~initRet.sd

\* C7 as stated: when init returned with resync needed and no shutdown
\* requested, the relaunch ran exactly once, with "-resync", and no
\* initializeResult was emitted.
C7_ResyncRelaunch ==
    ResyncCase => /\ relaunches = <<buildParameterlist("-resync")>>
                  /\ EmitCount = 0

\* C7 amended: in that case no initializeResult is emitted and restart is
\* entered with "-resync"; the relaunch runs exactly once with that argument
\* unless a teardown step of that restart raises, and then not at all.
C7_ResyncRelaunchUnlessFault ==
    ResyncCase =>
        /\ EmitCount = 0
        /\ RestartEntered = 1
        /\ relaunches = IF RestartRaised THEN <<>> ELSE <<buildParameterlist("-resync")>>

\* C7 witness: the resync conversion relaunched with "-resync".
C7_Witness == ResyncCase /\ relaunches = << <<"-resync">> >>

\* the one initializeResult emitted carries rv: queued or already received
OutcomeIs(rv) ==
    /\ EmitCount = 1
    /\ Has(wlog, <<"initialize", OutcomeName(rv)>>)
    /\ \/ \E i \in 1..Len(outQ) : outQ[i] = InitializeResultMsg(rv)
       \/ Has(clog, IF rv THEN "recvInitSucceeded" ELSE "recvInitFailed")

\* C8 as stated: an Initialize whose init returned and that was not turned
\* into a Restart has produced exactly one outcome, matching the return code.
C8_OneOutcome ==
    (initRet.st = "returned" /\ ~ResyncCase) => OutcomeIs(initRet.rv)

\* C8 amended: when init returned and no resync is needed, exactly one
\* outcome matching the return code is produced; when resync is needed, no
\* outcome is produced, also when a shutdown has been requested.
C8_OneOutcomeUnlessResync ==
    initRet.st = "returned" =>
        IF initRet.resync THEN EmitCount = 0 ELSE OutcomeIs(initRet.rv)

\* C8 witness: init returned failure without resync and InitFailed was received.
C8_Witness ==
    /\ initRet.st = "returned" /\ ~initRet.resync /\ ~initRet.rv
    /\ Has(clog, "recvInitFailed")

InitRaised ==
    \/ initRet.st = "faulted"
    \/ ResyncCase /\ RestartRaised

FaultPending == \E i \in 1..Len(outQ) : outQ[i] = RunawayMsg

\* C10: after a fault inside initialize the window is never shown, the fault
\* message is queued or received, receiving it shows the dialog and ends the
\* process with status 1, the process never ends with another status, and
\* it never stops short of that.
C10_InitFaultExitsWithFailure ==
    InitRaised =>
        /\ ~WindowShown /\ ~windowVisible
        /\ FaultPending \/ Has(clog, "recvFaultRaised")
        /\ Has(clog, "recvFaultRaised") =>
              Has(clog, "errorDialog") /\ proc = "exited" /\ exitCode = 1
        /\ proc = "exited" => exitCode = 1 /\ Has(clog, "errorDialog")
        /\ proc = "running" => ENABLED Next

\* C10 witness: AppInit2 raised and the controller left with status 1.
C10_Witness ==
    initRet.st = "faulted" /\ proc = "exited" /\ exitCode = 1 /\ Has(clog, "errorDialog")

WorkerFaults == Cardinality({i \in 1..Len(wlog) : wlog[i][2] = "runawayException"})
FaultsQueued == Cardinality({i \in 1..Len(outQ) : outQ[i] = RunawayMsg})

\* C11: every fault raised inside initialize, shutdown or restart is reported
\* as exactly one runawayException message; the step in which the worker
\* catches it queues that one message, leaves the worker running and idle,
\* and neither calls quit() nor ends the process.
C11_FaultReportedOnce ==
    /\ [](WorkerFaults = FaultsQueued + Count(clog, "recvFaultRaised"))
    /\ [][WorkerFaults' > WorkerFaults =>
            /\ WorkerFaults' = WorkerFaults + 1
            /\ outQ' = Append(outQ, RunawayMsg)
            /\ quitNow' = quitNow
            /\ proc' = proc /\ exitCode' = exitCode
            /\ wpc' = "idle"]_vars

\* C11 witness: initialize, restart and shutdown each raised in one run.
C11_Witness ==
    /\ Has(wlog, <<"initialize", "runawayException">>)
    /\ Has(wlog, <<"restart", "runawayException">>)
    /\ Has(wlog, <<"shutdown", "runawayException">>)

LoopExited == Has(clog, "execReturn")
\* initializeResult(false) ran past the ShutdownRequested() return
FailureHandled ==
    \E i \in 1..Len(clog) :
        /\ clog[i] = "recvInitFailed"
        /\ i + 2 <= Len(clog) /\ clog[i + 2] = "StartShutdown"

\* C12 as stated: once exec() has returned, the return code is 1 whenever
\* InitFailed was reported, and it is 0 only when InitSucceeded was reported.
C12_ReturnCodeReflectsOutcome ==
    LoopExited =>
        /\ Has(wlog, <<"initialize", "InitFailed">>) => exitCode = 1
        /\ exitCode = 0 => Has(wlog, <<"initialize", "InitSucceeded">>)

\* C12 amended: once exec() has returned, the return code is 1 exactly when
\* InitFailed was delivered while no shutdown had been requested, and 0 in
\* every other case (success, no outcome, or an outcome delivered after a
\* shutdown request).
C12_ReturnCodeUnlessShutdownRequested ==
    LoopExited => exitCode = (IF FailureHandled THEN 1 ELSE 0)

\* C12 witness: the loop exited with code 1 after InitFailed was handled.
C12_Witness == LoopExited /\ FailureHandled /\ exitCode = 1

\* position of the last occurrence of e in clog (0 when absent)
LastAt(e) ==
    IF Has(clog, e)
    THEN CHOOSE i \in 1..Len(clog) :
            clog[i] = e /\ \A j \in (i + 1)..Len(clog) : clog[j] # e
    ELSE 0
\* initializeResult ran to its end with neither -min nor -hide given
NormalStart ==
    /\ Has(clog, "splashFinished")
    /\ ~Has(clog, "showMinimized") /\ ~Has(clog, "startHidden")

\* C13: when InitSucceeded was handled to the end with neither -min nor
\* -hide, the controller went from requestInitialize through the success
\* outcome to a wired client model and a shown window, the window stays
\* visible until it is hidden or deleted, and the code returned after the
\* event loop exits is 0.
C13_NormalStartShowsWindow ==
    NormalStart =>
        /\ Has(wlog, <<"initialize", "InitSucceeded">>)
        /\ Count(clog, "show") = 1
        /\ Before(clog, "postInitialize", "recvInitSucceeded")
        /\ Before(clog, "recvInitSucceeded", "attachClientModel")
        /\ Before(clog, "attachClientModel", "show")
        /\ (LastAt("hide") < LastAt("show") /\ window = "live") => windowVisible
        /\ returnValue = 0
        /\ LoopExited => exitCode = 0

\* C13 witness: a normal start followed by a shutdown that ended the loop
\* and the process.
C13_Witness ==
    /\ NormalStart /\ LastAt("show") < LastAt("hide")
    /\ Has(wlog, <<"shutdown", "quit">>)
    /\ proc = "exited" /\ exitCode = 0

\* an initializeResult call has closed the gate and not yet returned
InitializeResultRunning ==
    \E i \in 1..Len(stack) :
        stack[i].fn = "initializeResult" /\ stack[i].pc # "begin"
InitializeResultOnStack ==
    \E i \in 1..Len(stack) : stack[i].fn = "initializeResult"
GateClosedAfter(es) ==
    \A i \in 1..Len(clog) :
        clog[i] = "closeGate" => (i > 1 /\ clog[i - 1] \in es)

\* C14 as stated: the gate is closed only while a delivered InitSucceeded is
\* being wired; it is never closed on receipt of InitFailed.
C14_GateClosedOnlyOnSuccess ==
    /\ ~shutdownAllowed => InitializeResultRunning
    /\ GateClosedAfter({"recvInitSucceeded"})

\* C14 amended: the gate is closed at the entry of every initializeResult
\* call, whatever outcome it delivers, and only there; it is closed in no
\* state outside a running initializeResult, so it is open initially and
\* while initializing, and every exit path of initializeResult has reopened
\* it.
C14_GateClosedOnlyInInitializeResult ==
    /\ ~shutdownAllowed <=> InitializeResultRunning
    /\ GateClosedAfter({"recvInitSucceeded", "recvInitFailed"})
    /\ Count(clog, "closeGate") =
          Count(clog, "recvInitSucceeded") + Count(clog, "recvInitFailed")
             - (IF stack # <<>> /\ Top.fn = "initializeResult" /\ Top.pc = "begin"
                THEN 1 ELSE 0)
    /\ Count(clog, "openGate") =
          Count(clog, "closeGate") - (IF InitializeResultRunning THEN 1 ELSE 0)
    /\ ~Has(clog, "closeGate") => shutdownAllowed

\* C14 witness: InitFailed was received, the gate was closed and reopened,
\* and initializeResult has returned.
C14_Witness ==
    /\ Has(clog, "recvInitFailed") /\ Has(clog, "closeGate")
    /\ ~InitializeResultOnStack /\ shutdownAllowed

\* the innermost call on the interactive thread is a requestShutdown
\* spinning in its gate wait
GateWaiting == stack # <<>> /\ Top.fn = "requestShutdown" /\ ~GateOpen

\* C15 as stated, in finite-run form: a requestShutdown held at its gate can
\* always be released, because the initializeResult call that holds the gate
\* closed is able to run on to its end.
C15_GateWaitEnds ==
    GateWaiting => ENABLED (IR_Begin \/ IR_Wallet \/ IR_Finish)

\* requestShutdown calls entered and finished among the first n clog entries
CallsUpTo(n) ==
    Cardinality({i \in 1..n : clog[i] \in {"pollShutdown", "userShutdown"}})
PostsUpTo(n) == Cardinality({i \in 1..n : clog[i] = "postShutdown"})
\* some requestShutdown call is yielding to the event loop in its gate wait
YieldingInRequestShutdown == InRequestShutdown /\ ~GateOpen
TimerOnlyWithWindow == timerActive => window = "live"
TimerStoppedBeforeYield == YieldingInRequestShutdown => ~timerActive
NoTickReentry ==
    \A j \in 1..Len(clog) :
        clog[j] = "pollShutdown" => CallsUpTo(j - 1) = PostsUpTo(j - 1)
TimerStopIsFirstStep ==
    \A j \in 1..Len(clog) :
        clog[j] = "timerStop" =>
            (j > 1 /\ clog[j - 1] \in {"pollShutdown", "userShutdown"})

\* C16 as stated: the poll timer runs only while the window exists, stopping
\* it is the first thing a requestShutdown call does, it is already stopped
\* whenever requestShutdown yields to the event loop, and no timer tick
\* enters requestShutdown while an earlier call is in progress.
C16_TimerStoppedFirst ==
    /\ TimerOnlyWithWindow
    /\ TimerStopIsFirstStep
    /\ TimerStoppedBeforeYield
    /\ NoTickReentry

\* C17 as stated: in every run the wallet model is destroyed before the
\* client model and the options model is destroyed last, after both.
C17_OptionsModelLast ==
    /\ Before(clog, "delWalletModel", "delClientModel")
    /\ optionsModel = "deleted" => (clientModel # "live" /\ walletModel # "live")

\* C17 amended: deletions happen in the order wallet model, client model,
\* options model; a client or wallet model is still alive when the options
\* model is deleted only if no requestShutdown ran after it was built.
C17_TeardownOrder ==
    /\ Before(clog, "delWalletModel", "delClientModel")
    /\ Before(clog, "delWalletModel", "delOptionsModel")
    /\ Before(clog, "delClientModel", "delOptionsModel")
    /\ Count(clog, "delOptionsModel") <= 1
    /\ (optionsModel = "deleted" /\ clientModel = "live") =>
            LastAt("postShutdown") < LastAt("newClientModel")
    /\ (optionsModel = "deleted" /\ walletModel = "live") =>
            LastAt("postShutdown") < LastAt("newWalletModel")

\* C17 witness: all three models were built and have been destroyed.
C17_Witness ==
    /\ Has(clog, "delWalletModel") /\ Has(clog, "delClientModel")
    /\ Has(clog, "delOptionsModel")
    /\ walletModel = "deleted" /\ clientModel = "deleted" /\ optionsModel = "deleted"

CountUpTo(n, e) == Cardinality({i \in 1..n : clog[i] = e})
PostPositions == {j \in 1..Len(clog) : clog[j] = "postShutdown"}

\* C18 as stated: at every forwarding of Shutdown each model built so far,
\* the options model included, has already been destroyed.
C18_AllModelsDestroyedAtForward ==
    \A j \in PostPositions :
        /\ CountUpTo(j, "delWalletModel") = CountUpTo(j, "newWalletModel")
        /\ CountUpTo(j, "delClientModel") = CountUpTo(j, "newClientModel")
        /\ CountUpTo(j, "delOptionsModel") = CountUpTo(j, "createOptionsModel")

\* C18 amended: at every forwarding of Shutdown the wallet model and the
\* client model built so far have been destroyed, while the options model
\* is still alive; it is deleted only after the event loop has exited.
C18_WalletAndClientDestroyedAtForward ==
    /\ \A j \in PostPositions :
          /\ CountUpTo(j, "delWalletModel") = CountUpTo(j, "newWalletModel")
          /\ CountUpTo(j, "delClientModel") = CountUpTo(j, "newClientModel")
          /\ CountUpTo(j, "createOptionsModel") = 1
          /\ CountUpTo(j, "delOptionsModel") = 0
    /\ Before(clog, "execReturn", "delOptionsModel")
    /\ ~LoopExited => optionsModel # "deleted"

\* C18 witness: Shutdown was forwarded after both models had been built and
\* deleted, with the options model alive.
C18_Witness ==
    /\ PostPositions # {}
    /\ Has(clog, "delWalletModel") /\ Has(clog, "delClientModel")
    /\ optionsModel = "live"

\* C19: when a running instance answers the single-instance probe, the
\* process has exited with code 0 and nothing was started before: no worker
\* thread, no Initialize request, no window, no poll timer, no options model.
C19_ProbeExitsBeforeStart ==
    Has(clog, "probeFound") =>
        /\ proc = "exited" /\ exitCode = 0
        /\ clog = <<"probeFound">> /\ wlog = <<>>
        /\ ~coreThread /\ wpc = "nothread"
        /\ reqQ = <<>> /\ outQ = <<>>
        /\ window = "null" /\ ~timerActive /\ optionsModel = "null"

\* C19 witness: the probe was answered and the process is gone.
C19_Witness == Has(clog, "probeFound") /\ proc = "exited"

InitializeQueued ==
    Cardinality({i \in 1..Len(reqQ) : reqQ[i] = Req("Initialize", <<>>)})
InitializeTaken == IF wpc = "init" \/ initRet.st # "pending" THEN 1 ELSE 0
\* main() calls requestInitialize once, right after createWindow
RequestInitializeCalls ==
    IF Has(clog, "createWindow") /\ mpc # "reqinit" THEN 1 ELSE 0

\* C20: the worker thread and its executor are created and started at most
\* once, however many requestInitialize and requestShutdown calls were made,
\* and each requestInitialize call posted exactly one Initialize request.
C20_ThreadStartedOnce ==
    /\ Count(clog, "startThread") <= 1
    /\ Count(clog, "startThread") = (IF coreThread THEN 1 ELSE 0)
    /\ coreThread <=> wpc # "nothread"
    /\ Count(clog, "postInitialize") = RequestInitializeCalls
    /\ InitializeQueued + InitializeTaken = RequestInitializeCalls

\* C20 witness: after requestInitialize, two requestShutdown calls ran to
\* their end and the thread was started once.
C20_Witness ==
    /\ Count(clog, "postInitialize") = 1 /\ ShutdownPosted >= 2
    /\ Count(clog, "startThread") = 1

ReleaseSteps == {"delWindow", "delPaymentServer", "delOptionsModel"}
Released == \E i \in 1..Len(clog) : clog[i] \in ReleaseSteps
WorkerStep ==
    W_InitBegin \/ W_InitFault \/ W_InitEnd \/ W_Restart \/ W_Shutdown \/ W_Stop

\* C21: once the destructor has released the window, the payment server or
\* the options model, a started worker thread had been told to stop and has
\* finished: the stop signal and the join precede every release, the worker
\* can take no further step, and no executor message can be delivered.
C21_JoinBeforeRelease ==
    Released =>
        /\ coreThread =>
              /\ wpc = "stopped" /\ stopRequested
              /\ Count(clog, "stopThread") = 1
              /\ Before(clog, "stopThread", "threadJoined")
        /\ \A e \in ReleaseSteps : Before(clog, "threadJoined", e)
        /\ Before(clog, "execReturn", "stopThread")
        /\ ~ENABLED WorkerStep
        /\ ~ENABLED (DeliverInitializeResult \/ DeliverRunaway)

\* C21 witness: the objects were released after a started worker was joined
\* while a request it never processed was still queued.
C21_Witness ==
    /\ Released /\ coreThread /\ window = "deleted" /\ optionsModel = "deleted"
    /\ reqQ # <<>>

\* every logged step of op follows its predecessor in the expected order,
\* and a step that is not the last is followed by the next one or by the
\* report of a fault
InOrder(op, expected) ==
    \A i \in 1..Len(wlog) : \A k \in 1..Len(expected) :
        wlog[i] = <<op, expected[k]>> =>
            /\ i > 1
            /\ wlog[i - 1] = <<op, IF k = 1 THEN "enter" ELSE expected[k - 1]>>
            /\ k < Len(expected) =>
                  /\ i < Len(wlog)
                  /\ wlog[i + 1] \in {<<op, expected[k + 1]>>, <<op, "runawayException">>}

\* C22: an effective restart runs Interrupt, PrepareShutdown, callCleanup,
\* startDetached, quit in this order, and shutdown runs Interrupt, Shutdown,
\* quit in this order; the event loop has been told to stop only by such a
\* quit step, after the engine teardown of the same operation.
C22_ExecutorStepOrder ==
    /\ InOrder("restart",
               <<"Interrupt", "PrepareShutdown", "callCleanup", "startDetached", "quit">>)
    /\ InOrder("shutdown", <<"Interrupt", "Shutdown", "quit">>)
    /\ quitNow <=> (Has(wlog, <<"restart", "quit">>) \/ Has(wlog, <<"shutdown", "quit">>))
    /\ Len(relaunches) = Count(wlog, <<"restart", "startDetached">>)

\* C22 witness: a shutdown and a restart both ran all their steps.
C22_Witness ==
    /\ Has(wlog, <<"restart", "quit">>) /\ Has(wlog, <<"shutdown", "quit">>)

\* C23 as stated: when InitSucceeded is wired, the gate is closed first, the
\* models are built and attached, then the gate is reopened, then the window
\* is shown, and applicationInitialized is signalled last.
C23_GateReopenedBeforeShow ==
    Has(clog, "newClientModel") =>
        /\ Before(clog, "closeGate", "newClientModel")
        /\ Before(clog, "newClientModel", "attachClientModel")
        /\ \A m \in ModelSteps : Before(clog, m, "openGate")
        /\ \A s \in ShowSteps : Before(clog, "openGate", s)
        /\ \A s \in ShowSteps : Before(clog, s, "applicationInitialized")
        /\ Before(clog, "openGate", "applicationInitialized")


\* C23 amended: when InitSucceeded is wired, the gate is closed first, the
\* models are built and attached, applicationInitialized is signalled, then
\* the window is shown (minimized with -min, not at all with -hide), then
\* splashFinished is signalled, and the gate is reopened last.
C23_GateReopenedLast ==
    Has(clog, "newClientModel") =>
        /\ Before(clog, "closeGate", "newClientModel")
        /\ Before(clog, "newClientModel", "attachClientModel")
        /\ \A m \in ModelSteps : Before(clog, m, "applicationInitialized")
        /\ \A s \in ShowSteps \cup {"startHidden"} :
              /\ Before(clog, "applicationInitialized", s)
              /\ Before(clog, s, "splashFinished")
        /\ Before(clog, "splashFinished", "openGate")
        /\ Count(clog, "closeGate") = 1 /\ Count(clog, "openGate") <= 1
        /\ Has(clog, "openGate") <=> shutdownAllowed

\* C23 witness: both models were wired, the window was shown and the gate
\* has been reopened.
C23_Witness ==
    /\ Has(clog, "newWalletModel") /\ Has(clog, "show")
    /\ Has(clog, "openGate") /\ shutdownAllowed

EngineTeardowns ==
    Count(wlog, <<"shutdown", "Shutdown">>) + Count(wlog, <<"restart", "PrepareShutdown">>)

\* C24 as stated: over any sequence of requests the engine teardown
\* (Shutdown() in shutdown, PrepareShutdown() in restart) has run at most
\* once.
C24_TeardownAtMostOnce == EngineTeardowns <= 1

====
